---- MODULE Spec2Model ----
(***************************************************************************)
(* Model of interpacf/interpacf.py: reconstruction of a gappy uniform time *)
(* series by linear interpolation, its autocorrelation function, and the   *)
(* search for the dominant period in the smoothed autocorrelation.         *)
(*                                                                         *)
(* Real numbers are modelled exactly, as normalised rationals <<n, d>>     *)
(* with d > 0 and gcd(n, d) = 1, so the rounding of floating point is not  *)
(* part of the model.  Sequences are 1-based here and 0-based in the       *)
(* source; index i of the source is index i + 1 of the model.              *)
(***************************************************************************)
EXTENDS Integers, Sequences, FiniteSets, TLC

VARIABLES pc, times, fluxes, interpolated_times, interpolated_fluxes,
          lag, acf, min, max, fwhm, window, quiet,
          lag_limited, smooth_acf, acf_period, warned

vars == <<pc, times, fluxes, interpolated_times, interpolated_fluxes,
          lag, acf, min, max, fwhm, window, quiet,
          lag_limited, smooth_acf, acf_period, warned>>

(***************************************************************************)
(* Bounds of the model.                                                    *)
(***************************************************************************)
\* number of cadences of the underlying uniform grid
MaxGrid == 6
\* length of the sequences handed to autocorrelation and dominant_period
MaxLen == 5
\* length of the time series handed to interpolated_acf
MaxPoints == 4
\* largest time value handed to interpolated_acf
MaxTime == 4

\* first times and spacings of the underlying uniform grid
Origins == {0, 1}
Spacings == {1, 2}
\* flux values of the observations
FluxValues == {-1, 2}
\* values of an autocorrelation function handed to dominant_period
AcfValues == {0, 1, 2}

None == "None"
NaN == "nan"

(***************************************************************************)
(* Exact arithmetic.                                                       *)
(***************************************************************************)
Abs(n) == IF n < 0 THEN -n ELSE n

RECURSIVE Gcd(_, _)
Gcd(a, b) == IF b = 0 THEN a ELSE Gcd(b, a % b)

\* the rational n / d, d # 0, in normal form
Rat(n, d) ==
    LET g == Gcd(Abs(n), Abs(d))
        s == IF d < 0 THEN -1 ELSE 1
    IN  <<(s * n) \div g, (s * d) \div g>>

R(n) == <<n, 1>>
RAdd(a, b) == Rat(a[1] * b[2] + b[1] * a[2], a[2] * b[2])
RSub(a, b) == Rat(a[1] * b[2] - b[1] * a[2], a[2] * b[2])
RMul(a, b) == Rat(a[1] * b[1], a[2] * b[2])
RDiv(a, b) == Rat(a[1] * b[2], a[2] * b[1])
RLt(a, b) == a[1] * b[2] < b[1] * a[2]
RLe(a, b) == a[1] * b[2] <= b[1] * a[2]

\* np.rint: round to the nearest integer, halves to the even neighbour
rint(a) ==
    LET f == a[1] \div a[2]
        r == a[1] - f * a[2]
    IN  IF 2 * r < a[2] THEN f
        ELSE IF 2 * r > a[2] THEN f + 1
        ELSE IF f % 2 = 0 THEN f ELSE f + 1

RECURSIVE SeqSum(_)
SeqSum(s) == IF s = <<>> THEN R(0) ELSE RAdd(Head(s), SeqSum(Tail(s)))

\* np.diff
diff(t) == [i \in 1..(Len(t) - 1) |-> RSub(t[i + 1], t[i])]

\* stable insertion of x into the ascending sequence of pairs s, by time
RECURSIVE Insert(_, _)
Insert(x, s) ==
    IF s = <<>> THEN <<x>>
    ELSE IF RLt(x[1], Head(s)[1]) THEN <<x>> \o s
    ELSE <<Head(s)>> \o Insert(x, Tail(s))

\* the pairs of s in ascending order of their first component (np.argsort)
RECURSIVE SortPairs(_)
SortPairs(s) ==
    IF s = <<>> THEN <<>>
    ELSE Insert(s[Len(s)], SortPairs(SubSeq(s, 1, Len(s) - 1)))

\* np.sort of a sequence of rationals
sort(t) == LET p == SortPairs([i \in 1..Len(t) |-> <<t[i], i>>])
           IN  [i \in 1..Len(t) |-> p[i][1]]

\* np.median of a non-empty sequence
median(d) ==
    LET s == sort(d)
        n == Len(s)
    IN  IF n % 2 = 1 THEN s[(n + 1) \div 2]
        ELSE RDiv(RAdd(s[n \div 2], s[n \div 2 + 1]), R(2))

\* the elements of the finite set S of integers, ascending
RECURSIVE SetToSeq(_)
SetToSeq(S) ==
    IF S = {} THEN <<>>
    ELSE LET m == CHOOSE x \in S : \A y \in S : x <= y
         IN  <<m>> \o SetToSeq(S \ {m})

Range(s) == {s[i] : i \in 1..Len(s)}

(***************************************************************************)
(* interpolate_missing_data                                                *)
(***************************************************************************)
\* np.interp(x, xp, fp) for one abscissa x: piecewise linear through the
\* points (xp[i], fp[i]), clamped to the end values outside [xp[0], xp[-1]]
interp_SlopeOfFirstSegment(x, xp, fp) ==
    LET n == Len(xp)
    IN  IF RLt(x, xp[1]) THEN fp[1]
        ELSE IF RLe(xp[n], x) THEN fp[n]
        ELSE LET j == CHOOSE k \in 1..(n - 1) : RLe(xp[k], x) /\ RLt(x, xp[k + 1])
                 slope == RDiv(RSub(fp[2], fp[1]), RSub(xp[2], xp[1]))
             IN  RAdd(RMul(slope, RSub(x, xp[j])), fp[j])

interp(x, xp, fp) ==
    LET n == Len(xp)
    IN  IF RLt(x, xp[1]) THEN fp[1]
        ELSE IF RLe(xp[n], x) THEN fp[n]
        ELSE LET j == CHOOSE k \in 1..(n - 1) : RLe(xp[k], x) /\ RLt(x, xp[k + 1])
                 slope == RDiv(RSub(fp[j + 1], fp[j]), RSub(xp[j + 1], xp[j]))
             IN  RAdd(RMul(slope, RSub(x, xp[j])), fp[j])

\* dt: the typical time between cadences
typical_dt(t) == median(diff(t))

\* the patchy grid of integer cadence indices of the observed times
cadence_indices(t, first_time, dt) ==
    [i \in 1..Len(t) |-> rint(RDiv(RSub(t[i], first_time), dt))]

SeqMin(s) == CHOOSE x \in Range(s) : \A y \in Range(s) : x <= y
SeqMax(s) == CHOOSE x \in Range(s) : \A y \in Range(s) : x >= y

\* set(np.arange(cadence_indices.min(), cadence_indices.max()))
expected_cadence_indices(ci) == SeqMin(ci) .. (SeqMax(ci) - 1)

missing_cadence_indices_NoDifference(ci) == expected_cadence_indices(ci)

missing_cadence_indices(ci) == expected_cadence_indices(ci) \ Range(ci)

\* first_time + missing_cadence_indices * dt
missing_times(missing, first_time, dt) ==
    LET m == SetToSeq(missing)
    IN  [i \in 1..Len(m) |-> RAdd(first_time, RMul(R(m[i]), dt))]

\* the division by dt is undefined when fewer than two points are given
\* (median of nothing) or when the median spacing is zero: the cadence
\* indices are then NaN and np.arange raises
interpolate_raises(t) == Len(t) < 2 \/ typical_dt(t) = R(0)

\* the (time, flux) pairs returned, in ascending order of time
interpolate_missing_data(t, f) ==
    LET dt == typical_dt(t)
        first_time == t[1]
        ci == cadence_indices(t, first_time, dt)
        mt == missing_times(missing_cadence_indices(ci), first_time, dt)
        interp_fluxes == [i \in 1..Len(mt) |-> interp(mt[i], t, f)]
        all_times == t \o mt
        all_fluxes == f \o interp_fluxes
    IN  SortPairs([i \in 1..Len(all_times) |-> <<all_times[i], all_fluxes[i]>>])

Firsts(p) == [i \in 1..Len(p) |-> p[i][1]]
Seconds(p) == [i \in 1..Len(p) |-> p[i][2]]
Lift(s) == [i \in 1..Len(s) |-> R(s[i])]

(***************************************************************************)
(* autocorrelation                                                         *)
(***************************************************************************)
\* np.correlate(a, v, mode='full'): entry k (0-based) is the sum of
\* a[n + k - (N - 1)] * v[n] over the n for which both indices are valid
correlate_full(a, v) ==
    LET N == Len(a)
    IN  [k \in 1..(2 * N - 1) |->
            SeqSum([n \in 1..(N - Abs(k - N)) |->
                LET m == n + (IF k < N THEN N - k ELSE 0)
                IN  RMul(a[m + k - N], v[m])])]

autocorrelation_SliceAfterMiddle(x) ==
    LET result == correlate_full(x, x)
    IN  SubSeq(result, Len(result) \div 2 + 2, Len(result))

\* result[result.size//2:]
autocorrelation(x) ==
    LET result == correlate_full(x, x)
    IN  SubSeq(result, Len(result) \div 2 + 1, Len(result))

(***************************************************************************)
(* Specification of a call of interpolate_missing_data on a uniform grid   *)
(* from which a subset of the points was removed.                          *)
(***************************************************************************)
Unused == <<>>

GapSeries ==
    {[i \in 1..Cardinality(keep) |-> origin + s * SetToSeq(keep)[i]] :
        origin \in Origins, s \in Spacings,
        keep \in {k \in SUBSET (0..(MaxGrid - 1)) : Cardinality(k) >= 2}}

InitReconstruct ==
    /\ pc = "start"
    /\ \E t \in GapSeries :
          /\ times = Lift(t)
          /\ \E f \in [1..Len(t) -> FluxValues] : fluxes = Lift(f)
    /\ interpolated_times = Unused /\ interpolated_fluxes = Unused
    /\ lag = Unused /\ acf = Unused
    /\ min = None /\ max = None /\ fwhm = 0 /\ window = 0 /\ quiet = FALSE
    /\ lag_limited = Unused /\ smooth_acf = Unused
    /\ acf_period = None /\ warned = FALSE

Reconstruct ==
    /\ pc = "start"
    /\ ~interpolate_raises(times)
    /\ \E p \in {interpolate_missing_data(times, fluxes)} :
           /\ interpolated_times' = Firsts(p)
           /\ interpolated_fluxes' = Seconds(p)
    /\ pc' = "reconstructed"
    /\ UNCHANGED <<times, fluxes, lag, acf, min, max, fwhm, window, quiet,
                   lag_limited, smooth_acf, acf_period, warned>>

SpecReconstruct == InitReconstruct /\ [][Reconstruct]_vars

(***************************************************************************)
(* Properties of interpolate_missing_data.                                 *)
(***************************************************************************)
Reconstructed == pc = "reconstructed"

\* the positions of the output whose time is not an observed time
AddedPoints ==
    {j \in 1..Len(interpolated_times) : interpolated_times[j] \notin Range(times)}

\* v lies between a and b, whichever of the two is the larger
Between(a, v, b) == (RLe(a, v) /\ RLe(v, b)) \/ (RLe(b, v) /\ RLe(v, a))

\* the observed neighbours i, i + 1 that bracket the time t
Brackets(t) ==
    {i \in 1..(Len(times) - 1) : RLt(times[i], t) /\ RLt(t, times[i + 1])}

\* C4: every observed (time, value) pair is returned unchanged, and every
\* added point lies strictly inside the observed time range with a value
\* between the values of the two observed points that bracket it in time.
C4_ObservedKeptAddedBracketed ==
    Reconstructed =>
        /\ \A i \in 1..Len(times) :
              \E j \in 1..Len(interpolated_times) :
                  /\ interpolated_times[j] = times[i]
                  /\ interpolated_fluxes[j] = fluxes[i]
        /\ Len(interpolated_times) = Len(times) + Cardinality(AddedPoints)
        /\ Len(interpolated_fluxes) = Len(interpolated_times)
        /\ \A j \in AddedPoints :
              /\ RLt(times[1], interpolated_times[j])
              /\ RLt(interpolated_times[j], times[Len(times)])
              /\ \E i \in Brackets(interpolated_times[j]) :
                    Between(fluxes[i], interpolated_fluxes[j], fluxes[i + 1])

\* a point was added in a gap whose two ends have different values, and its
\* value is strictly between them
C4_Witness ==
    /\ Reconstructed
    /\ \E j \in AddedPoints : \E i \in Brackets(interpolated_times[j]) :
          /\ fluxes[i] # fluxes[i + 1]
          /\ interpolated_fluxes[j] # fluxes[i]
          /\ interpolated_fluxes[j] # fluxes[i + 1]
          /\ Between(fluxes[i], interpolated_fluxes[j], fluxes[i + 1])

\* every observed time is the first one plus a multiple of s
OnGrid(t, s) ==
    \A i \in 1..Len(t) : (RSub(t[i], t[1])[2] = 1) /\ (RSub(t[i], t[1])[1] % s = 0)

\* the times first, first + s, ..., last
FullGrid(first, last, s) ==
    [i \in 1..(RSub(last, first)[1] \div s + 1) |-> RAdd(first, R((i - 1) * s))]

StrictlyAscending(t) == \A i \in 1..(Len(t) - 1) : RLt(t[i], t[i + 1])

EvenlySpaced(t) ==
    \A i, j \in 1..(Len(t) - 1) : RSub(t[i + 1], t[i]) = RSub(t[j + 1], t[j])

\* C5: whatever subset of the grid was removed, the output is
\* strictly ascending and evenly spaced, with exactly one point for each
\* cadence of the grid between the first and the last observed time.
C5_AlwaysCompleteGrid ==
    Reconstructed =>
        /\ StrictlyAscending(interpolated_times)
        /\ EvenlySpaced(interpolated_times)
        /\ \E s \in 1..RSub(times[Len(times)], times[1])[1] :
              /\ OnGrid(times, s)
              /\ interpolated_times = FullGrid(times[1], times[Len(times)], s)

\* Where the reconstruction does complete the grid: when the median of the
\* consecutive differences of the observed times equals the spacing s of
\* the grid, the output is strictly ascending and evenly spaced and holds
\* exactly one point for each cadence first, first + s, ..., last.
CompleteGridWhenMedianIsSpacing ==
    Reconstructed =>
        \A s \in Spacings :
            (OnGrid(times, s) /\ typical_dt(times) = R(s)) =>
                /\ StrictlyAscending(interpolated_times)
                /\ EvenlySpaced(interpolated_times)
                /\ interpolated_times = FullGrid(times[1], times[Len(times)], s)

\* a series with a gap of two cadences was completed
CompleteGridWitness ==
    /\ Reconstructed
    /\ \E s \in Spacings : OnGrid(times, s) /\ typical_dt(times) = R(s)
    /\ Len(interpolated_times) >= Len(times) + 2
    /\ EvenlySpaced(interpolated_times)

\* C8: on a complete uniform grid the reconstruction returns the same
\* times and values in the same order, and reconstructing its output again
\* changes nothing.
C8_IdentityOnCompleteGrid ==
    (Reconstructed /\ EvenlySpaced(times)) =>
        /\ interpolated_times = times
        /\ interpolated_fluxes = fluxes
        /\ ~interpolate_raises(interpolated_times)
        /\ LET again == interpolate_missing_data(interpolated_times,
                                                 interpolated_fluxes)
           IN  Firsts(again) = times /\ Seconds(again) = fluxes

\* a complete grid of at least three points with differing values went
\* through the reconstruction
C8_Witness ==
    /\ Reconstructed
    /\ EvenlySpaced(times)
    /\ Len(times) >= 3
    /\ Cardinality(Range(fluxes)) >= 2
    /\ Len(interpolated_times) = Len(times)

(***************************************************************************)
(* Specification of a call of autocorrelation.                             *)
(***************************************************************************)
\* values of the sequence handed to autocorrelation
CorrValues == {<<-1, 1>>, <<1, 2>>, <<2, 1>>}

Seqs(S, lo, hi) == UNION {[1..n -> S] : n \in lo..hi}

InitAcf ==
    /\ pc = "start"
    /\ interpolated_fluxes \in Seqs(CorrValues, 1, MaxLen)
    /\ times = Unused /\ fluxes = Unused /\ interpolated_times = Unused
    /\ lag = Unused /\ acf = Unused
    /\ min = None /\ max = None /\ fwhm = 0 /\ window = 0 /\ quiet = FALSE
    /\ lag_limited = Unused /\ smooth_acf = Unused
    /\ acf_period = None /\ warned = FALSE

Correlate ==
    /\ pc = "start"
    /\ acf' = autocorrelation(interpolated_fluxes)
    /\ pc' = "correlated"
    /\ UNCHANGED <<times, fluxes, interpolated_times, interpolated_fluxes, lag,
                   min, max, fwhm, window, quiet, lag_limited,
                   smooth_acf, acf_period, warned>>

SpecAcf == InitAcf /\ [][Correlate]_vars

\* the sum of x[k] * x[k + i] over the k for which both indices are valid
RECURSIVE LagProduct(_, _, _)
LagProduct(x, i, k) ==
    IF k + i > Len(x) THEN R(0)
    ELSE RAdd(RMul(x[k], x[k + i]), LagProduct(x, i, k + 1))

\* C7: autocorrelation of N values returns N values, the value at lag i
\* being the sum of values[k] * values[k + i] over the overlapping indices;
\* the value at lag 0 is the sum of the squares.
C7_AcfIsLagProductSum ==
    pc = "correlated" =>
        /\ Len(acf) = Len(interpolated_fluxes)
        /\ \A i \in 0..(Len(interpolated_fluxes) - 1) :
              acf[i + 1] = LagProduct(interpolated_fluxes, i, 1)
        /\ acf[1] = SeqSum([k \in 1..Len(interpolated_fluxes) |->
                        RMul(interpolated_fluxes[k], interpolated_fluxes[k])])

\* the autocorrelation of at least three values, not all equal, with a
\* non-zero value at the largest lag
C7_Witness ==
    /\ pc = "correlated"
    /\ Len(interpolated_fluxes) >= 3
    /\ Cardinality(Range(interpolated_fluxes)) >= 2
    /\ acf[Len(acf)] # R(0)
    /\ acf[2] # acf[1]

(***************************************************************************)
(* interpolated_acf, and the specification of a call of it on an arbitrary *)
(* time series of at least two points.                                     *)
(***************************************************************************)
\* np.all(np.sort(times) == times)
chronological(t) == sort(t) = t

InitPipeline ==
    /\ pc = "start"
    /\ \E t \in Seqs(0..MaxTime, 2, MaxPoints) :
          /\ times = Lift(t)
          /\ \E f \in [1..Len(t) -> FluxValues] : fluxes = Lift(f)
    /\ interpolated_times = Unused /\ interpolated_fluxes = Unused
    /\ lag = Unused /\ acf = Unused
    /\ min = None /\ max = None /\ fwhm = 0 /\ window = 0 /\ quiet = FALSE
    /\ lag_limited = Unused /\ smooth_acf = Unused
    /\ acf_period = None /\ warned = FALSE

\* the order check fails: ValueError, nothing was computed
RaiseValueError ==
    /\ pc = "start"
    /\ ~chronological(times)
    /\ pc' = "ValueError"
    /\ UNCHANGED <<times, fluxes, interpolated_times, interpolated_fluxes, lag,
                   acf, min, max, fwhm, window, quiet, lag_limited,
                   smooth_acf, acf_period, warned>>

\* the order check passes and the reconstruction fails on its division
FailInReconstruction ==
    /\ pc = "start"
    /\ chronological(times)
    /\ interpolate_raises(times)
    /\ pc' = "error"
    /\ UNCHANGED <<times, fluxes, interpolated_times, interpolated_fluxes, lag,
                   acf, min, max, fwhm, window, quiet, lag_limited,
                   smooth_acf, acf_period, warned>>

\* the order check passes: reconstruction, lag grid, autocorrelation
ReturnLagAcf ==
    /\ pc = "start"
    /\ chronological(times)
    /\ ~interpolate_raises(times)
    /\ \E p \in {interpolate_missing_data(times, fluxes)} :
       \E dt \in {median(diff(Firsts(p)))} :
           /\ interpolated_times' = Firsts(p)
           /\ interpolated_fluxes' = Seconds(p)
           /\ lag' = [i \in 1..Len(p) |-> RMul(dt, R(i - 1))]
           /\ acf' = autocorrelation(Seconds(p))
    /\ pc' = "returned"
    /\ UNCHANGED <<times, fluxes, min, max, fwhm, window, quiet, lag_limited,
                   smooth_acf, acf_period, warned>>

interpolated_acf == RaiseValueError \/ FailInReconstruction \/ ReturnLagAcf

SpecPipeline == InitPipeline /\ [][interpolated_acf]_vars

\* C3: no time series that is not strictly ascending, be it for an
\* out-of-order pair or for two equal consecutive timestamps, gets a (lag,
\* acf) result from interpolated_acf.
C3_NotStrictlyAscendingRejected ==
    ~StrictlyAscending(times) => pc # "returned"

\* What the order check does reject: every series with an out-of-order
\* pair ends in the ValueError with nothing computed.
OutOfOrderRejected ==
    (pc # "start" /\ \E i \in 1..(Len(times) - 1) : RLt(times[i + 1], times[i])) =>
        /\ pc = "ValueError"
        /\ interpolated_times = Unused /\ interpolated_fluxes = Unused
        /\ lag = Unused /\ acf = Unused

\* C10: for a strictly ascending input, lag and acf have the length of the
\* reconstructed series and lag[i] = i * dt, dt being the median of the
\* consecutive differences of the input times that the reconstruction used
\* to build its cadence grid.
C10_LagSpacingIsReconstructionSpacing ==
    (pc = "returned" /\ StrictlyAscending(times)) =>
        /\ Len(lag) = Len(interpolated_times)
        /\ Len(acf) = Len(interpolated_times)
        /\ \A i \in 1..Len(lag) : lag[i] = RMul(R(i - 1), typical_dt(times))

\* What holds of the lag grid on every input: lag and acf are as long as
\* the reconstructed series, and lag[i] = i * dt with dt the median of the
\* consecutive differences of the reconstructed times.
LagSpacingIsMedianOfReconstructed ==
    pc = "returned" =>
        /\ Len(lag) = Len(interpolated_times)
        /\ Len(acf) = Len(interpolated_times)
        /\ \A i \in 1..Len(lag) :
              lag[i] = RMul(R(i - 1), typical_dt(interpolated_times))

(***************************************************************************)
(* dominant_period                                                         *)
(***************************************************************************)
\* the mask selecting the lags inside the limits lo (min) and hi (max)
keep_lag(l, lo, hi) ==
    IF lo # None /\ hi = None THEN RLt(lo, l)
    ELSE IF hi # None /\ lo = None THEN RLt(l, hi)
    ELSE IF hi # None /\ lo # None THEN RLt(l, hi) /\ RLt(lo, l)
    ELSE TRUE

\* the positions of lag that the mask keeps, ascending
limited_indices(lg, lo, hi) ==
    SetToSeq({i \in 1..Len(lg) : keep_lag(lg[i], lo, hi)})

\* gaussian_filter truncates its kernel at int(truncate * sigma + 0.5)
\* samples from the centre; with truncate = window / sigma that is window
kernel_radius(w) == w

\* The weight of the kernel at distance x from its centre, times the
\* weight at the centre of a kernel of radius r.  exp(-x^2 / (2 sigma^2))
\* with sigma = fwhm / 2.355 is 2^(-(2 x / fwhm)^2), 2.355 standing for
\* 2 sqrt(2 ln 2); it is a power of two for the widths of Kernels.
kernel_weight(fw, r, x) == 2 ^ ((4 * r * r - 4 * x * x) \div (fw * fw))

\* mode='reflect' of scipy.ndimage: (d c b a | a b c d | d c b a); the
\* position, 0-based, that position i of the extended array mirrors
reflect(i, n) ==
    LET m == i % (2 * n)
    IN  IF m < n THEN m ELSE 2 * n - 1 - m

\* gaussian_filter(input, sigma, truncate=truncate): the correlation of
\* the input with the normalised kernel, the input being extended by
\* reflection; an empty input gives an empty output
gaussian_filter(input, fw, w) ==
    LET n == Len(input)
        r == kernel_radius(w)
        total == SeqSum([k \in 1..(2 * r + 1) |->
                     R(kernel_weight(fw, r, Abs(k - r - 1)))])
    IN  [i \in 1..n |->
            RDiv(SeqSum([k \in 1..(2 * r + 1) |->
                     RMul(R(kernel_weight(fw, r, Abs(k - r - 1))),
                          input[reflect(i - 1 + k - r - 1, n) + 1])]),
                 total)]

clip(i, n) == IF i < 1 THEN 1 ELSE IF i > n THEN n ELSE i

relative_maxes_NotStrict(x) ==
    SetToSeq({i \in 1..Len(x) :
        /\ i > 1 /\ i < Len(x)
        /\ RLe(x[i + 1], x[i])
        /\ RLe(x[i - 1], x[i])})

\* signal.argrelmax(x)[0]: the positions strictly greater than both
\* neighbours, a position past either end being clipped to the end
relative_maxes(x) ==
    SetToSeq({i \in 1..Len(x) :
        /\ RLt(x[clip(i + 1, Len(x))], x[i])
        /\ RLt(x[clip(i - 1, Len(x))], x[i])})

argmax_Last(x) ==
    CHOOSE j \in 1..Len(x) :
        /\ \A k \in 1..Len(x) : RLe(x[k], x[j])
        /\ \A k \in (j + 1)..Len(x) : RLt(x[k], x[j])

\* np.argmax: the first position of the greatest value
argmax(x) ==
    CHOOSE j \in 1..Len(x) :
        /\ \A k \in 1..Len(x) : RLe(x[k], x[j])
        /\ \A k \in 1..(j - 1) : RLt(x[k], x[j])

\* a sequence given as a function, as the tuple of its values
Array(f) == f \o <<>>

dominant_period_UnlimitedLag(lg, a, lo, hi, fw, w) ==
    LET kept == limited_indices(lg, lo, hi)
        lagl == Array([i \in 1..Len(kept) |-> lg[kept[i]]])
        acfl == Array([i \in 1..Len(kept) |-> a[kept[i]]])
        smooth == Array(gaussian_filter(acfl, fw, w))
        maxes == relative_maxes(smooth)
    IN  [lag_limited |-> lagl, smooth_acf |-> smooth,
         acf_period |->
            IF Len(maxes) = 0 THEN NaN
            ELSE lg[maxes[argmax([i \in 1..Len(maxes) |-> smooth[maxes[i]]])]]]

\* lag_limited and smooth_acf as dominant_period leaves them, and the
\* value it returns: the lag of the highest peak, or NaN
dominant_period(lg, a, lo, hi, fw, w) ==
    LET kept == limited_indices(lg, lo, hi)
        lagl == Array([i \in 1..Len(kept) |-> lg[kept[i]]])
        acfl == Array([i \in 1..Len(kept) |-> a[kept[i]]])
        smooth == Array(gaussian_filter(acfl, fw, w))
        maxes == relative_maxes(smooth)
    IN  [lag_limited |-> lagl, smooth_acf |-> smooth,
         acf_period |->
            IF Len(maxes) = 0 THEN NaN
            ELSE lagl[maxes[argmax([i \in 1..Len(maxes) |-> smooth[maxes[i]]])]]]

(***************************************************************************)
(* Specification of a call of dominant_period on the lag grid and the      *)
(* autocorrelation function of a series.                                   *)
(***************************************************************************)
\* spacings of the lag grid
LagSpacings == {<<1, 2>>, <<2, 1>>}
\* the limits min and max
MinLimits == {None, <<0, 1>>, <<1, 2>>}
MaxLimits == {None, <<2, 1>>, <<3, 1>>}
\* the pairs (fwhm, window): the width of the smoothing kernel and the
\* number of lags after which it is cut
Kernels == {<<2, 0>>, <<2, 1>>, <<2, 2>>, <<1, 1>>}

InitPeriod ==
    /\ pc = "start"
    /\ \E a \in Seqs(AcfValues, 1, MaxLen), dt \in LagSpacings :
          /\ acf = Lift(a)
          /\ lag = [i \in 1..Len(a) |-> RMul(dt, R(i - 1))]
    /\ min \in MinLimits /\ max \in MaxLimits
    /\ \E k \in Kernels : fwhm = k[1] /\ window = k[2]
    /\ quiet \in BOOLEAN
    /\ times = Unused /\ fluxes = Unused
    /\ interpolated_times = Unused /\ interpolated_fluxes = Unused
    /\ lag_limited = Unused /\ smooth_acf = Unused
    /\ acf_period = None /\ warned = FALSE

DominantPeriod ==
    /\ pc = "start"
    /\ \E ret \in {dominant_period(lag, acf, min, max, fwhm, window)} :
           /\ lag_limited' = ret.lag_limited
           /\ smooth_acf' = ret.smooth_acf
           /\ acf_period' = ret.acf_period
           /\ warned' = (ret.acf_period = NaN /\ ~quiet)
    /\ pc' = "done"
    /\ UNCHANGED <<times, fluxes, interpolated_times, interpolated_fluxes, lag,
                   acf, min, max, fwhm, window, quiet>>

SpecPeriod == InitPeriod /\ [][DominantPeriod]_vars

(***************************************************************************)
(* Properties of dominant_period.                                          *)
(***************************************************************************)
Done == pc = "done"
Found == Done /\ acf_period # NaN

\* the lag l is strictly inside the limits that were given
InsideLimits(l) ==
    /\ (min # None => RLt(min, l))
    /\ (max # None => RLt(l, max))

\* the lags inside the limits, in the order of the lag grid
LagLimited ==
    LET kept == SetToSeq({i \in 1..Len(lag) : InsideLimits(lag[i])})
    IN  Array([i \in 1..Len(kept) |-> lag[kept[i]]])

\* the interior positions of x strictly greater than both neighbours
StrictLocalMaxima(x) ==
    {i \in 2..(Len(x) - 1) : RLt(x[i - 1], x[i]) /\ RLt(x[i + 1], x[i])}

C2_NoPeakGivesNaN ==
    Done =>
        LET sm == smooth_acf
        IN  StrictLocalMaxima(sm) = {} => (acf_period = NaN /\ warned = ~quiet)

\* NaN was returned with the warning for a smoothed sequence of three or
\* more points that are not all equal
C2_Witness ==
    /\ Done /\ acf_period = NaN /\ warned /\ ~quiet
    /\ window > 0
    /\ LET sm == smooth_acf
       IN  /\ Len(sm) >= 3
           /\ Cardinality(Range(sm)) >= 2
           /\ StrictLocalMaxima(sm) = {}

\* C6: when the smoothed sequence has a strict local maximum, the value
\* returned is the lag at an interior position that is a strict local
\* maximum of the smoothed sequence, no other strict local maximum is
\* higher, and none as high has a lower lag.
C6_HighestPeakLowestLag ==
    Done =>
        LET sm == smooth_acf
            peaks == StrictLocalMaxima(sm)
            ll == LagLimited
        IN  peaks # {} =>
                \E i \in peaks :
                    /\ acf_period = ll[i]
                    /\ i > 1 /\ i < Len(ll)
                    /\ \A j \in peaks :
                          /\ RLe(sm[j], sm[i])
                          /\ sm[j] = sm[i] => RLe(ll[i], ll[j])

\* two peaks of the same, greatest, smoothed value under a kernel of more
\* than one sample, the one of lower lag being returned
C6_Witness ==
    /\ Found
    /\ window > 0
    /\ LET sm == smooth_acf
           peaks == StrictLocalMaxima(sm)
       IN  \E i, j \in peaks :
               /\ i < j
               /\ sm[i] = sm[j]
               /\ \A k \in peaks : RLe(sm[k], sm[i])
               /\ acf_period = LagLimited[i]

====
